---- MODULE Spec2Model ----
(***************************************************************************)
(* A model of opyrator's Streamlit front end (opyrator/ui/streamlit_ui.py):*)
(* the session state, InputUI (render_ui, _store_value, _get_value and the *)
(* property renderers), OutputUI and render_streamlit_ui.                  *)
(*                                                                         *)
(* Data representation.                                                    *)
(*  - A key is a sequence of characters; "." separates its elements.       *)
(*  - A Python value is a tree: a function from paths (sequences of key    *)
(*    elements) to node labels.  The label "DICT" marks a dict; any other  *)
(*    label is a leaf value.  The root is the path << >>.                  *)
(***************************************************************************)
EXTENDS Naturals, Sequences, FiniteSets, TLC

VARIABLES
    opyrator,                \* the Opyrator being served (fixed per behaviour)
    input_data,              \* session_state.input_data
    output_data,             \* session_state.output_data
    latest_operation_input,  \* session_state.latest_operation_input
    run,                     \* what the latest script run did (its UI effects)
    ret                      \* the latest call of a single method (_store_value, _get_value, _render_single_output) and its result

vars == <<opyrator, input_data, output_data, latest_operation_input, run, ret>>

----------------------------------------------------------------------------
(* Bounds *)

\* longest key (in characters) handed to _store_value/_get_value
MaxKeyLen == 2
\* number of _store_value/_get_value calls explored from the empty session
MaxOps == 2

----------------------------------------------------------------------------
(* Python values as trees *)

DictLabel == "DICT"
NoneLabel == "None"

Leaf(v) == (<< >> :> v)
EmptyDict == Leaf(DictLabel)
NoneValue == Leaf(NoneLabel)

IsPrefix(p, q) ==
    /\ Len(p) <= Len(q)
    /\ SubSeq(q, 1, Len(p)) = p

\* the value found at path p of tree D (p must be a node of D)
SubTree(D, p) ==
    LET below == {q \in DOMAIN D : IsPrefix(p, q)}
        rel(q) == SubSeq(q, Len(p) + 1, Len(q))
    IN  [r \in {rel(q) : q \in below} |-> D[p \o r]]

\* D with the value at path p replaced by (or set to) the tree V
Graft(D, p, V) ==
    LET keep == {q \in DOMAIN D : ~IsPrefix(p, q)}
        new  == {p \o r : r \in DOMAIN V}
    IN  [q \in keep \cup new |->
            IF q \in new THEN V[SubSeq(q, Len(p) + 1, Len(q))] ELSE D[q]]

\* Python type of a leaf label, as far as `in` and item access tell them apart
LeafKind(v) ==
    IF v \in {"s1", "s2"} THEN "str"
    ELSE IF v \in {"[]", "[x]", "[x,x]", "[x,x,x]"} THEN "list"
    ELSE "other"

\* `key_element not in data_element` for a data_element that is no dict:
\* a substring test on a str (the widget strings share no character with the
\* key alphabet, so only the empty element is a substring), a membership test
\* on a list, a TypeError on None, numbers and booleans.
NotInLeaf(v, key_element) ==
    CASE LeafKind(v) = "str"  -> IF key_element = << >> THEN "in" ELSE "not in"
      [] LeafKind(v) = "list" -> "not in"
      [] OTHER                -> "TypeError"

----------------------------------------------------------------------------
(* key.split(".") *)

RECURSIVE SplitFrom(_, _)
SplitFrom(key, cur) ==
    IF key = << >> THEN << cur >>
    ELSE IF Head(key) = "." THEN << cur >> \o SplitFrom(Tail(key), << >>)
    ELSE SplitFrom(Tail(key), Append(cur, Head(key)))

split(key) == SplitFrom(key, << >>)

----------------------------------------------------------------------------
(* InputUI._store_value and InputUI._get_value *)

\* The loop of _store_value from data_element = the node at path `node`,
\* with key_elements still to visit.  Result: the session input_data after
\* the call and whether the call raised.
RECURSIVE StoreWalk(_, _, _, _)
StoreWalk(D, node, key_elements, value) ==
    LET key_element == Head(key_elements)
        child == Append(node, key_element)
    IN  IF D[node] # DictLabel
        THEN \* item assignment, `in` or indexing on a str, list, number, None
             [exc |-> TRUE, data |-> D]
        ELSE IF Len(key_elements) = 1
        THEN [exc |-> FALSE, data |-> Graft(D, child, value)]
        ELSE StoreWalk(IF child \in DOMAIN D THEN D ELSE Graft(D, child, EmptyDict),
                       child, Tail(key_elements), value)

\* a _store_value that adds the value to the first key element
StoreValueAtFirstElement(D, key, value) ==
    [exc |-> FALSE, data |-> Graft(D, << Head(split(key)) >>, value)]

_store_value(D, key, value) == StoreWalk(D, << >>, split(key), value)

\* The loop of _get_value.  Result: the value returned (None as NoneValue),
\* the session input_data after the call (the loop creates the missing
\* intermediate dicts), and whether the call raised.
RECURSIVE GetWalk(_, _, _)
GetWalk(D, node, key_elements) ==
    LET key_element == Head(key_elements)
        child == Append(node, key_element)
    IN  IF Len(key_elements) = 1
        THEN IF D[node] = DictLabel
             THEN [exc |-> FALSE, data |-> D,
                   val |-> IF child \in DOMAIN D THEN SubTree(D, child) ELSE NoneValue]
             ELSE IF NotInLeaf(D[node], key_element) = "not in"
             THEN [exc |-> FALSE, data |-> D, val |-> NoneValue]
             ELSE [exc |-> TRUE, data |-> D, val |-> NoneValue]
        ELSE IF D[node] # DictLabel
        THEN [exc |-> TRUE, data |-> D, val |-> NoneValue]
        ELSE GetWalk(IF child \in DOMAIN D THEN D ELSE Graft(D, child, EmptyDict),
                     child, Tail(key_elements))

_get_value(D, key) == GetWalk(D, << >>, split(key))

----------------------------------------------------------------------------
(* JSON schemas of the input class (input_class.schema(by_alias=True)) *)

\* A property (or a definition) of a schema.  "none" stands for a missing
\* entry; ref is "$ref", all_of_ref is allOf[0]["$ref"]; has_items tells
\* whether "items" is present, items_* are its entries; properties is the
\* ordered "properties" dict of an object definition.
Property ==
    [type |-> "none", format |-> "none", ref |-> "none", all_of_ref |-> "none",
     has_items |-> FALSE, items_type |-> "none", items_ref |-> "none",
     items_format |-> "none", unique_items |-> FALSE,
     additional_properties |-> FALSE, has_enum |-> FALSE,
     has_properties |-> FALSE, properties |-> << >>]

StringProperty  == [Property EXCEPT !.type = "string"]
IntegerProperty == [Property EXCEPT !.type = "integer"]
BooleanProperty == [Property EXCEPT !.type = "boolean"]
DateProperty    == [Property EXCEPT !.type = "string", !.format = "date"]
FileProperty    == [Property EXCEPT !.type = "string", !.format = "byte"]
DictProperty    == [Property EXCEPT !.type = "object", !.additional_properties = TRUE]
ListProperty    ==
    [Property EXCEPT !.type = "array", !.has_items = TRUE, !.items_type = "string"]
MultiFileProperty ==
    [Property EXCEPT !.type = "array", !.has_items = TRUE, !.items_type = "string",
                     !.items_format = "byte"]
\* anyOf: [...] (a Union field): no type, no $ref
UnionProperty   == Property
RefProperty(name) == [Property EXCEPT !.ref = name]
AllOfProperty(name) == [Property EXCEPT !.all_of_ref = name]
ObjectListProperty(name) ==
    [Property EXCEPT !.type = "array", !.has_items = TRUE, !.items_ref = name]
MultiEnumProperty(name) ==
    [Property EXCEPT !.type = "array", !.has_items = TRUE, !.items_ref = name,
                     !.unique_items = TRUE]
EnumDefinition  == [Property EXCEPT !.type = "string", !.has_enum = TRUE]
ObjectDefinition(props) ==
    [Property EXCEPT !.type = "object", !.has_properties = TRUE, !.properties = props]

Field(name, property) == [name |-> name, property |-> property]

\* schema_utils.resolve_reference: the definition a "$ref" names, if any
resolve_reference(reference, references) ==
    IF reference \in DOMAIN references THEN << references[reference] >> ELSE << >>

\* schema_utils.get_single_reference_item: "$ref", else allOf[0]["$ref"]
get_single_reference_item(property, references) ==
    IF property.ref # "none" THEN resolve_reference(property.ref, references)
    ELSE IF property.all_of_ref # "none"
    THEN resolve_reference(property.all_of_ref, references)
    ELSE << >>

is_single_enum_property(property, references) ==
    LET item == get_single_reference_item(property, references)
    IN  item # << >> /\ item[1].has_enum

is_multi_enum_property(property, references) ==
    /\ property.type = "array"
    /\ property.unique_items
    /\ LET item == resolve_reference(property.items_ref, references)
       IN  item # << >> /\ item[1].has_enum

is_single_file_property(property) ==
    property.type = "string" /\ property.format = "byte"

is_multi_file_property(property) ==
    /\ property.type = "array"
    /\ property.has_items
    /\ property.items_format = "byte"

is_single_datetime_property(property) ==
    property.type = "string" /\ property.format \in {"date-time", "time", "date"}

is_single_boolean_property(property) == property.type = "boolean"

is_single_dict_property(property) ==
    property.type = "object" /\ property.additional_properties

is_single_number_property(property) == property.type \in {"integer", "number"}

is_single_string_property(property) == property.type = "string"

is_single_object(property, references) ==
    LET item == get_single_reference_item(property, references)
    IN  item # << >> /\ item[1].type = "object" /\ item[1].has_properties

is_object_list_property(property, references) ==
    /\ property.type = "array"
    /\ LET item == resolve_reference(property.items_ref, references)
       IN  item # << >> /\ item[1].type = "object" /\ item[1].has_properties

is_property_list(property) ==
    /\ property.type = "array"
    /\ property.has_items
    /\ property.items_type \in {"string", "number", "integer"}

is_single_reference(property) ==
    property.type = "none" /\ property.ref # "none"

----------------------------------------------------------------------------
(* InputUI: the property renderers *)

\* A renderer call yields: exc (it raised), val (the value it returned),
\* data (session input_data after it), log (the renderer invocations made,
\* in order, each with the key and the container it was handed).
\* The user's part of a run is ui: ui.w[key] is the state ("1" or "2") of the
\* widget with that key, ui.pressed the one button clicked to start the run
\* (a Streamlit button is True only in the run its click triggers).

Invocation(container, key, renderer) ==
    [key |-> key, container |-> container, renderer |-> renderer]

Returned(container, key, renderer, D, value) ==
    [exc |-> FALSE, val |-> value, data |-> D,
     log |-> << Invocation(container, key, renderer) >>]

Raised(D, log) == [exc |-> TRUE, val |-> NoneValue, data |-> D, log |-> log]

WidgetState(ui, key) == IF key \in DOMAIN ui.w THEN ui.w[key] ELSE "1"

Selected(ui, key, first, second) ==
    Leaf(IF WidgetState(ui, key) = "1" THEN first ELSE second)

Clicked(ui, name, key) == ui.pressed = [name |-> name, key |-> key]

\* bool(value)
Truthy(value) ==
    IF value[<< >>] = DictLabel THEN DOMAIN value # {<< >>}
    ELSE value[<< >>] \notin {NoneLabel, "[]", "False", "n0", ""}

ListLabels == << "[]", "[x]", "[x,x]", "[x,x,x]" >>

ListLen(label) == (CHOOSE n \in 1..Len(ListLabels) : ListLabels[n] = label) - 1

\* current_list.append(item)
ListAppend(value) == Leaf(ListLabels[ListLen(value[<< >>]) + 2])

IsList(value) == LeafKind(value[<< >>]) = "list"

_render_single_enum_input(streamlit_app, key, property, D, ui) ==
    Returned(streamlit_app, key, "_render_single_enum_input", D,
             Selected(ui, key, "e1", "e2"))

_render_multi_enum_input(streamlit_app, key, property, D, ui) ==
    Returned(streamlit_app, key, "_render_multi_enum_input", D,
             Selected(ui, key, "[]", "[x]"))

_render_single_file_input(streamlit_app, key, property, D, ui) ==
    Returned(streamlit_app, key, "_render_single_file_input", D,
             Selected(ui, key, NoneLabel, "f1"))

_render_multi_file_input(streamlit_app, key, property, D, ui) ==
    Returned(streamlit_app, key, "_render_multi_file_input", D,
             Selected(ui, key, "[]", "[x]"))

_render_single_datetime_input(streamlit_app, key, property, D, ui) ==
    Returned(streamlit_app, key, "_render_single_datetime_input", D,
             IF property.format \in {"time", "date", "date-time"}
             THEN Selected(ui, key, "d1", "d2")
             ELSE NoneValue)

_render_single_boolean_input(streamlit_app, key, property, D, ui) ==
    Returned(streamlit_app, key, "_render_single_boolean_input", D,
             Selected(ui, key, "False", "True"))

_render_single_number_input(streamlit_app, key, property, D, ui) ==
    Returned(streamlit_app, key, "_render_single_number_input", D,
             Selected(ui, key, "n0", "n1"))

_render_single_string_input(streamlit_app, key, property, D, ui) ==
    Returned(streamlit_app, key, "_render_single_string_input", D,
             Selected(ui, key, "s1", "s2"))

\* current = self._get_value(key); if not current: current = <empty>;
\* then the "Clear Items" and "Add Item" buttons.  A non-empty current value
\* is the object held by the session, so adding to it changes the session.
\* got is the result of self._get_value(key).
CurrentOr(got, empty) == IF Truthy(got.val) THEN got.val ELSE empty

DictInputAfterGet(streamlit_app, key, ui, got, here) ==
    IF got.exc THEN Raised(got.data, here)
    ELSE IF Clicked(ui, "Clear Items", key)
    THEN [exc |-> FALSE, val |-> EmptyDict, data |-> got.data, log |-> here]
    ELSE IF Clicked(ui, "Add Item", key) /\ WidgetState(ui, key) # "1"
    THEN IF CurrentOr(got, EmptyDict)[<< >>] # DictLabel THEN Raised(got.data, here)
         ELSE [exc |-> FALSE, log |-> here,
               val |-> Graft(CurrentOr(got, EmptyDict), << <<"k">> >>, Leaf("x")),
               data |-> IF Truthy(got.val)
                        THEN Graft(got.data, split(key) \o << <<"k">> >>, Leaf("x"))
                        ELSE got.data]
    ELSE [exc |-> FALSE, val |-> CurrentOr(got, EmptyDict), data |-> got.data,
          log |-> here]

_render_single_dict_input(streamlit_app, key, property, D, ui) ==
    DictInputAfterGet(streamlit_app, key, ui, _get_value(D, key),
                      << Invocation(streamlit_app, key, "_render_single_dict_input") >>)

\* the buttons of a list input: current is the list, session the session
\* input_data, item_given whether there is an item to add
ListButtons(key, ui, current, kept, session, item_given, log) ==
    IF Clicked(ui, "Clear Items", key)
    THEN [exc |-> FALSE, val |-> Leaf("[]"), data |-> session, log |-> log]
    ELSE IF Clicked(ui, "Add Item", key) /\ item_given
    THEN IF ~IsList(current) THEN Raised(session, log)
         ELSE [exc |-> FALSE, val |-> ListAppend(current), log |-> log,
               data |-> IF kept THEN Graft(session, split(key), ListAppend(current))
                        ELSE session]
    ELSE [exc |-> FALSE, val |-> current, data |-> session, log |-> log]

PropertyListAfterGet(key, ui, got, here) ==
    IF got.exc THEN Raised(got.data, here)
    ELSE ListButtons(key, ui, CurrentOr(got, Leaf("[]")), Truthy(got.val),
                     got.data, TRUE, here)

_render_property_list_input(streamlit_app, key, property, D, ui) ==
    PropertyListAfterGet(key, ui, _get_value(D, key),
        << Invocation(streamlit_app, key, "_render_property_list_input") >>)

RECURSIVE _render_property(_, _, _, _, _, _, _)
RECURSIVE RenderObjectFrom(_, _, _, _, _, _, _, _, _, _)

\* The loop of _render_object_input from the i-th entry of properties, with
\* object_inputs and the invocation log so far.  references are the schema's
\* definitions; fuel is the number of nested _render_property calls the
\* interpreter still allows.  r is the result of the i-th _render_property.
RenderObjectAfter(streamlit_app, key, properties, i, object_inputs, log, ui, references, fuel, r) ==
    IF r.exc THEN Raised(r.data, log \o r.log)
    ELSE RenderObjectFrom(streamlit_app, key, properties, i + 1,
                          Graft(object_inputs, << properties[i].name >>, r.val),
                          log \o r.log, r.data, ui, references, fuel)

RenderObjectFrom(streamlit_app, key, properties, i, object_inputs, log, D, ui, references, fuel) ==
    IF i > Len(properties)
    THEN [exc |-> FALSE, val |-> object_inputs, data |-> D, log |-> log]
    ELSE RenderObjectAfter(streamlit_app, key, properties, i, object_inputs, log,
                           ui, references, fuel,
                           _render_property(streamlit_app,
                                            key \o <<".">> \o properties[i].name,
                                            properties[i].property, D, ui,
                                            references, fuel))

\* an object renderer that hands every nested property the sidebar
RenderObjectInSidebar(streamlit_app, key, property, D, ui, references, fuel) ==
    RenderObjectFrom("sidebar", key, property.properties, 1, EmptyDict, << >>,
                     D, ui, references, fuel)

_render_object_input(streamlit_app, key, property, D, ui, references, fuel) ==
    RenderObjectFrom(streamlit_app, key, property.properties, 1, EmptyDict, << >>,
                     D, ui, references, fuel)

Logged(invocation, r) == [r EXCEPT !.log = << invocation >> \o @]

_render_single_object_input(streamlit_app, key, property, D, ui, references, fuel) ==
    Logged(Invocation(streamlit_app, key, "_render_single_object_input"),
           _render_object_input(streamlit_app, key,
                                get_single_reference_item(property, references)[1],
                                D, ui, references, fuel))

\* got is the result of self._get_value(key), r of _render_object_input
ObjectListAfterObject(key, ui, got, r) ==
    IF r.exc THEN r
    ELSE ListButtons(key, ui, CurrentOr(got, Leaf("[]")), Truthy(got.val),
                     r.data, Truthy(r.val), r.log)

ObjectListAfterGet(streamlit_app, key, property, ui, references, fuel, got, here) ==
    IF got.exc THEN Raised(got.data, << here >>)
    ELSE ObjectListAfterObject(key, ui, got,
            Logged(here,
                   _render_object_input(streamlit_app, key,
                        resolve_reference(property.items_ref, references)[1],
                        got.data, ui, references, fuel)))

_render_object_list_input(streamlit_app, key, property, D, ui, references, fuel) ==
    ObjectListAfterGet(streamlit_app, key, property, ui, references, fuel,
                       _get_value(D, key),
                       Invocation(streamlit_app, key, "_render_object_list_input"))

_render_single_reference(streamlit_app, key, property, D, ui, references, fuel) ==
    IF get_single_reference_item(property, references) = << >>
    THEN Raised(D, << Invocation(streamlit_app, key, "_render_single_reference") >>)
    ELSE Logged(Invocation(streamlit_app, key, "_render_single_reference"),
                _render_property(streamlit_app, key,
                                 get_single_reference_item(property, references)[1],
                                 D, ui, references, fuel))

\* a _render_property that tests the string predicate before the file and
\* the datetime predicate
RenderPropertyStringFirst(streamlit_app, key, property, D, ui, references, fuel) ==
    IF fuel = 0 THEN Raised(D, << >>)
    ELSE IF is_single_enum_property(property, references)
    THEN _render_single_enum_input(streamlit_app, key, property, D, ui)
    ELSE IF is_multi_enum_property(property, references)
    THEN _render_multi_enum_input(streamlit_app, key, property, D, ui)
    ELSE IF is_single_string_property(property)
    THEN _render_single_string_input(streamlit_app, key, property, D, ui)
    ELSE IF is_multi_file_property(property)
    THEN _render_multi_file_input(streamlit_app, key, property, D, ui)
    ELSE IF is_single_boolean_property(property)
    THEN _render_single_boolean_input(streamlit_app, key, property, D, ui)
    ELSE IF is_single_dict_property(property)
    THEN _render_single_dict_input(streamlit_app, key, property, D, ui)
    ELSE IF is_single_number_property(property)
    THEN _render_single_number_input(streamlit_app, key, property, D, ui)
    ELSE IF is_single_object(property, references)
    THEN _render_single_object_input(streamlit_app, key, property, D, ui,
                                     references, fuel - 1)
    ELSE IF is_object_list_property(property, references)
    THEN _render_object_list_input(streamlit_app, key, property, D, ui,
                                   references, fuel - 1)
    ELSE IF is_property_list(property)
    THEN _render_property_list_input(streamlit_app, key, property, D, ui)
    ELSE IF is_single_reference(property)
    THEN _render_single_reference(streamlit_app, key, property, D, ui,
                                  references, fuel - 1)
    ELSE Raised(D, << Invocation(streamlit_app, key, "warning") >>)

\* _render_property: the first predicate that holds picks the renderer; no
\* predicate: a warning and Exception("Unsupported property").  With no fuel
\* left the call itself fails (RecursionError, an Exception).
_render_property(streamlit_app, key, property, D, ui, references, fuel) ==
    IF fuel = 0 THEN Raised(D, << >>)
    ELSE IF is_single_enum_property(property, references)
    THEN _render_single_enum_input(streamlit_app, key, property, D, ui)
    ELSE IF is_multi_enum_property(property, references)
    THEN _render_multi_enum_input(streamlit_app, key, property, D, ui)
    ELSE IF is_single_file_property(property)
    THEN _render_single_file_input(streamlit_app, key, property, D, ui)
    ELSE IF is_multi_file_property(property)
    THEN _render_multi_file_input(streamlit_app, key, property, D, ui)
    ELSE IF is_single_datetime_property(property)
    THEN _render_single_datetime_input(streamlit_app, key, property, D, ui)
    ELSE IF is_single_boolean_property(property)
    THEN _render_single_boolean_input(streamlit_app, key, property, D, ui)
    ELSE IF is_single_dict_property(property)
    THEN _render_single_dict_input(streamlit_app, key, property, D, ui)
    ELSE IF is_single_number_property(property)
    THEN _render_single_number_input(streamlit_app, key, property, D, ui)
    ELSE IF is_single_string_property(property)
    THEN _render_single_string_input(streamlit_app, key, property, D, ui)
    ELSE IF is_single_object(property, references)
    THEN _render_single_object_input(streamlit_app, key, property, D, ui,
                                     references, fuel - 1)
    ELSE IF is_object_list_property(property, references)
    THEN _render_object_list_input(streamlit_app, key, property, D, ui,
                                   references, fuel - 1)
    ELSE IF is_property_list(property)
    THEN _render_property_list_input(streamlit_app, key, property, D, ui)
    ELSE IF is_single_reference(property)
    THEN _render_single_reference(streamlit_app, key, property, D, ui,
                                  references, fuel - 1)
    ELSE Raised(D, << Invocation(streamlit_app, key, "warning") >>)

----------------------------------------------------------------------------
(* InputUI.render_ui *)

\* An input class: its name, whether it defines render_input_ui, its schema
\* (ordered properties, required list, definitions), the values its
\* validators reject, the keys of the widgets of its form whose state the
\* user can change (keys) and of those with "Add Item" and "Clear Items"
\* buttons (item_keys).
InputClass(name, custom, properties, required, definitions, rejected, keys, item_keys) ==
    [name |-> name, has_render_input_ui |-> custom, properties |-> properties,
     required |-> required, definitions |-> definitions, rejected |-> rejected,
     keys |-> keys, item_keys |-> item_keys]

\* a model object of class cls; .dict() gives its fields back as a dict
Object(cls, fields) == [cls |-> cls, fields |-> fields]
NoObject == Object("None", EmptyDict)
dict(object) == object.fields

has_input_ui_renderer(input_class) == input_class.has_render_input_ui

\* the nesting of _render_property calls the interpreter allows
RecursionLimit == 4

\* the try/except of one round of the loop of render_ui: r is the result of
\* self._render_property(...), stored that of self._store_value(...)
TopLevelAfterStore(property_key, r, stored) ==
    [data |-> IF r.exc THEN r.data ELSE stored.data, log |-> r.log,
     skipped |-> IF r.exc \/ stored.exc THEN {property_key} ELSE {}]

TopLevelAfterRender(property_key, r) ==
    TopLevelAfterStore(property_key, r, _store_value(r.data, property_key, r.val))

RenderTopLevelProperty(input_class, property_key, property, D, ui) ==
    TopLevelAfterRender(property_key,
        _render_property(IF property_key \in input_class.required
                         THEN "main" ELSE "sidebar",
                         property_key, property, D, ui,
                         input_class.definitions, RecursionLimit))

RECURSIVE RenderUIFrom(_, _, _, _, _, _)
RenderUIAfter(input_class, i, log, skipped, ui, r) ==
    RenderUIFrom(input_class, i + 1, r.data, log \o r.log, skipped \cup r.skipped, ui)

RenderUIFrom(input_class, i, D, log, skipped, ui) ==
    IF i > Len(input_class.properties)
    THEN [exc |-> FALSE, data |-> D, log |-> log, skipped |-> skipped,
          custom_calls |-> << >>]
    ELSE RenderUIAfter(input_class, i, log, skipped, ui,
                       RenderTopLevelProperty(input_class,
                                              input_class.properties[i].name,
                                              input_class.properties[i].property,
                                              D, ui))

\* InputUI.render_ui.  ui.custom is what the input class's render_input_ui
\* does in this run: << >> when it raises, or << the model object it returns >>.
\* custom_calls: the calls of render_input_ui, each with the input_data it
\* was handed and what it did.
CustomCall(D, result) == [input_data |-> D, result |-> result]

\* a render_ui without the return that ends the custom branch
RenderUIWithoutReturn(input_class, D, ui) ==
    IF has_input_ui_renderer(input_class) /\ ui.custom = << >>
    THEN [exc |-> TRUE, data |-> D, log |-> << >>, skipped |-> {},
          custom_calls |-> << CustomCall(D, ui.custom) >>]
    ELSE [RenderUIFrom(input_class, 1,
                       IF has_input_ui_renderer(input_class)
                       THEN dict(ui.custom[1]) ELSE D,
                       << >>, {}, ui)
          EXCEPT !.custom_calls = IF has_input_ui_renderer(input_class)
                                  THEN << CustomCall(D, ui.custom) >> ELSE << >>]

InputUI_render_ui(input_class, D, ui) ==
    IF has_input_ui_renderer(input_class)
    THEN IF ui.custom = << >>
         THEN [exc |-> TRUE, data |-> D, log |-> << >>, skipped |-> {},
               custom_calls |-> << CustomCall(D, ui.custom) >>]
         ELSE [exc |-> FALSE, data |-> dict(ui.custom[1]), log |-> << >>,
               skipped |-> {}, custom_calls |-> << CustomCall(D, ui.custom) >>]
    ELSE RenderUIFrom(input_class, 1, D, << >>, {}, ui)

----------------------------------------------------------------------------
(* OutputUI *)

\* The render_output_ui attribute of an output object: whether it is
\* defined, the parameter names of its signature, whether inspect.signature
\* can read it, and whether calling it raises.
Renderer(defined, parameters, inspectable, raises) ==
    [defined |-> defined, parameters |-> parameters, inspectable |-> inspectable,
     raises |-> raises]
NoRenderer == Renderer(FALSE, {}, TRUE, FALSE)

\* An output value.  kind: "none" (None), "model" (a BaseModel), "list",
\* "other"; tag tells values apart; auto is what the auto-generated rendering
\* of a model does: "properties" (its schema has properties), "json" (it has
\* none) or "raises"; len is the length of a list; item_renderer and
\* item_dict_raises describe the items of a list.
Output(kind, tag, renderer, auto, len, item_renderer, item_dict_raises) ==
    [kind |-> kind, tag |-> tag, render_output_ui |-> renderer, auto |-> auto,
     len |-> len, item_renderer |-> item_renderer,
     item_dict_raises |-> item_dict_raises]

NoOutput == Output("none", "None", NoRenderer, "json", 0, NoRenderer, FALSE)
ModelOutput(tag, renderer, auto) ==
    Output("model", tag, renderer, auto, 0, NoRenderer, FALSE)
ListOutput(tag, len, item_renderer, item_dict_raises) ==
    Output("list", tag, NoRenderer, "json", len, item_renderer, item_dict_raises)
OtherOutput(tag) == Output("other", tag, NoRenderer, "json", 0, NoRenderer, FALSE)

\* bool(output_data): None and the empty list are falsy
OutputTruthy(output) ==
    /\ output.kind # "none"
    /\ ~(output.kind = "list" /\ output.len = 0)

\* One step of the rendering of an output: what was shown or called, and the
\* input= argument handed over (none, or one object).
Step(name, input) == [step |-> name, input |-> input]

\* lines 52-60: the parameter argument is not read; a signature that
\* inspect.signature cannot produce gives False
function_has_named_arg(func, parameter) ==
    func.inspectable /\ "input" \in func.parameters

has_output_ui_renderer(data_item) == data_item.render_output_ui.defined

\* lines 726-795: the auto-generated rendering of a model
AutoRendering(out) ==
    CASE out.auto = "raises"     -> [exc |-> TRUE, trace |-> << >>]
      [] out.auto = "properties" ->
            [exc |-> FALSE, trace |-> << Step("properties", << >>) >>]
      [] OTHER -> [exc |-> FALSE, trace |-> << Step("json", << >>) >>]

\* a _render_single_output without the try/except around the custom renderer
SingleOutputUnguarded(out, inp) ==
    IF has_output_ui_renderer(out)
    THEN [exc |-> out.render_output_ui.raises,
          trace |-> << Step("render_output_ui",
                            IF function_has_named_arg(out.render_output_ui,
                                                      "input")
                            THEN << inp >> ELSE << >>) >>]
    ELSE AutoRendering(out)

_render_single_output(out, inp) ==
    LET custom ==
            IF has_output_ui_renderer(out)
            THEN << Step("render_output_ui",
                         IF function_has_named_arg(out.render_output_ui,
                                                   "input")
                         THEN << inp >> ELSE << >>) >>
            ELSE << >>
        auto == AutoRendering(out)
    IN  IF custom # << >> /\ ~out.render_output_ui.raises
        THEN [exc |-> FALSE, trace |-> custom]
        ELSE [exc |-> auto.exc, trace |-> custom \o auto.trace]

RECURSIVE Repeat(_, _)
Repeat(x, n) == IF n = 0 THEN << >> ELSE << x >> \o Repeat(x, n - 1)

\* _render_list_output: every exception ends in the JSON fallback of line 810
_render_list_output(out) ==
    LET item == Step("item.render_output_ui", << >>)
    IN  IF has_output_ui_renderer([render_output_ui |-> out.item_renderer])
        THEN IF out.item_renderer.raises /\ out.len > 0
             THEN [exc |-> FALSE, trace |-> << item, Step("json", << >>) >>]
             ELSE [exc |-> FALSE,
                   trace |-> Repeat(item, out.len) \o << Step("table", << >>) >>]
        ELSE IF out.item_dict_raises /\ out.len > 0
        THEN [exc |-> FALSE, trace |-> << Step("json", << >>) >>]
        ELSE [exc |-> FALSE, trace |-> << Step("table", << >>) >>]

\* lines 638-643: the renderer of the output's type
RenderByType(out, inp) ==
    IF out.kind = "model" THEN _render_single_output(out, inp)
    ELSE IF out.kind = "list" THEN _render_list_output(out)
    ELSE [exc |-> FALSE, trace |-> << >>]

\* lines 644-647: r is the result of the try block
RenderUIExcept(r) ==
    IF r.exc
    THEN [exc |-> FALSE,
          trace |-> r.trace \o << Step("exception", << >>),
                                  Step("json_fallback", << >>) >>]
    ELSE r

\* an OutputUI.render_ui that lets the exception of the rendering out
RenderUIUnguarded(out, inp) == RenderByType(out, inp)

\* OutputUI.render_ui: exc tells whether an exception leaves it
OutputUI_render_ui(out, inp) == RenderUIExcept(RenderByType(out, inp))

----------------------------------------------------------------------------
(* The session and the observations of one script run *)

\* streamlit_utils.SessionState: the three attributes the page uses
Session(inp, out, latest) ==
    [input_data |-> inp, output_data |-> out, latest_operation_input |-> latest]

\* SessionState.clear(): "Clear all state"
SessionState_clear(session) == Session(EmptyDict, NoOutput, NoObject)

\* What one run of the script did: the button that started it, how it ended
\* ("done", "rerun" by st.experimental_rerun, "raised" by an exception that
\* left render_streamlit_ui), the page-level buttons it put on the page
\* (shown), the renderer invocations of InputUI (log), the
\* top-level properties whose rendering raised (skipped), the calls of
\* render_input_ui (each with the input_data it got), the calls of the
\* operation (each with its input), the errors shown by st.error, and the
\* OutputUI renderings (each with the output and input it was built from).
\* odd is the parity of the number of runs the session has seen, which tells
\* a run from the one before it.
RunRecord(pressed, outcome, shown, log, skipped, custom_calls, op_calls, errors, rendered) ==
    [pressed |-> pressed, outcome |-> outcome, shown |-> shown, log |-> log,
     skipped |-> skipped,
     custom_calls |-> custom_calls, op_calls |-> op_calls, errors |-> errors,
     rendered |-> rendered, odd |-> FALSE]

NoRun == RunRecord("none", "none", {}, << >>, {}, << >>, << >>, << >>, << >>)
NoCall == [op |-> "none", key |-> << >>, value |-> NoneValue, exc |-> FALSE,
           result |-> NoneValue, n |-> 0]

Button(name, key) == [name |-> name, key |-> key]
NoButton == Button("none", << >>)

----------------------------------------------------------------------------
(* render_streamlit_ui *)

\* pydantic.parse_obj_as(input_type, input_data): no object (ValidationError)
\* when a required property is missing or None or a value is one the class
\* rejects; else the object, with the undeclared entries dropped and None for
\* the properties that are not given.
parse_obj_as(input_type, D) ==
    LET names == {input_type.properties[i].name : i \in DOMAIN input_type.properties}
        given == {n \in names : << n >> \in DOMAIN D}
        valid ==
            /\ \A n \in input_type.required :
                  n \in given /\ D[<< n >>] # NoneLabel
            /\ \A n \in given : D[<< n >>] \notin input_type.rejected
        kept == {q \in DOMAIN D : q = << >> \/ q[1] \in names}
        defaults == {<< n >> : n \in names \ given}
    IN  IF valid
        THEN << Object(input_type.name,
                       [q \in kept \cup defaults |->
                            IF q \in kept THEN D[q] ELSE NoneLabel]) >>
        ELSE << >>

\* one call of the operation: the input it got and what it did
OpCall(input, op) == [input |-> input, result |-> op]

\* a Clear that restarts the run without clearing the session
ClearWithoutClearing(session, this_run) ==
    [session |-> session, run |-> [this_run EXCEPT !.outcome = "rerun", !.shown = {"Clear"}]]

\* lines 837-841: the Clear button was pressed
ClearPressed(session, this_run) ==
    [session |-> SessionState_clear(session),
     run |-> [this_run EXCEPT !.outcome = "rerun", !.shown = {"Clear"}]]

\* lines 846-858, a version that stores the raw session input_data
ExecuteStoringRawInput(opy, session, op) ==
    LET input_data_obj == parse_obj_as(opy.input_type, session.input_data)
    IN  IF input_data_obj = << >>
        THEN [exc |-> FALSE, session |-> session, op_calls |-> << >>,
              errors |-> << "ValidationError" >>]
        ELSE [exc |-> op.kind = "Exception",
              session |-> IF op.kind = "return"
                          THEN Session(session.input_data, op.out,
                                       Object(opy.input_type.name, session.input_data))
                          ELSE session,
              op_calls |-> << OpCall(input_data_obj[1], op) >>,
              errors |-> IF op.kind = "ValidationError"
                         THEN << "ValidationError" >> ELSE << >>]

\* lines 846-858, a version that stores the output before it validates
ExecuteStoringEarly(opy, session, op) ==
    LET input_data_obj == parse_obj_as(opy.input_type, session.input_data)
        stored == [session EXCEPT !.output_data =
                      IF op.kind = "return" THEN op.out ELSE NoOutput]
    IN  IF input_data_obj = << >>
        THEN [exc |-> FALSE, session |-> stored, op_calls |-> << >>,
              errors |-> << "ValidationError" >>]
        ELSE [exc |-> op.kind = "Exception",
              session |-> IF op.kind = "return"
                          THEN Session(session.input_data, op.out, input_data_obj[1])
                          ELSE stored,
              op_calls |-> << OpCall(input_data_obj[1], op) >>,
              errors |-> IF op.kind = "ValidationError"
                         THEN << "ValidationError" >> ELSE << >>]

\* lines 846-858: Execute was pressed.  op is what the operation does when
\* called in this run: it returns op.out, raises a ValidationError, or raises
\* another exception (which the except clause does not catch).
ExecutePressed(opy, session, op) ==
    LET input_data_obj == parse_obj_as(opy.input_type, session.input_data)
    IN  IF input_data_obj = << >>
        THEN [exc |-> FALSE, session |-> session, op_calls |-> << >>,
              errors |-> << "ValidationError" >>]
        ELSE [exc |-> op.kind = "Exception",
              session |-> IF op.kind = "return"
                          THEN Session(session.input_data, op.out, input_data_obj[1])
                          ELSE session,
              op_calls |-> << OpCall(input_data_obj[1], op) >>,
              errors |-> IF op.kind = "ValidationError"
                         THEN << "ValidationError" >> ELSE << >>]

\* lines 861-863: r is the result of OutputUI(...).render_ui()
Rendering(out, inp, r) == [out |-> out, inp |-> inp, trace |-> r.trace]

OutputRendered(session, this_run, ui, r) ==
    [this_run EXCEPT
        !.rendered = << Rendering(session.output_data,
                                  session.latest_operation_input, r) >>,
        !.shown = @ \cup {"Show JSON Output"},
        !.outcome = IF \/ r.exc
                       \/ /\ Clicked(ui, "Show JSON Output", << >>)
                          /\ session.output_data.kind # "model"
                    THEN "raised" ELSE @]

\* an output section that is rendered only in the run that executed
OutputSectionOnlyAfterExecute(session, this_run, ui) ==
    IF OutputTruthy(session.output_data) /\ this_run.op_calls # << >>
    THEN OutputRendered(session, this_run, ui,
                        OutputUI_render_ui(session.output_data,
                                           session.latest_operation_input))
    ELSE this_run

\* lines 860-871: the output section.  output_data.json() exists on a model
\* only.
OutputSection(session, this_run, ui) ==
    IF OutputTruthy(session.output_data)
    THEN OutputRendered(session, this_run, ui,
                        OutputUI_render_ui(session.output_data,
                                           session.latest_operation_input))
    ELSE this_run

\* lines 846-863 when Execute was pressed: executed is the result of the
\* try block
AfterExecute(executed, this_run, ui) ==
    IF executed.exc
    THEN [session |-> executed.session,
          run |-> [this_run EXCEPT !.outcome = "raised",
                                   !.op_calls = executed.op_calls,
                                   !.errors = executed.errors]]
    ELSE [session |-> executed.session,
          run |-> OutputSection(executed.session,
                                [this_run EXCEPT !.op_calls = executed.op_calls,
                                                 !.errors = executed.errors], ui)]

\* lines 833-871: the page below the form.  form_raised: InputUI.render_ui
\* raised; filled: the session as the form left it.
PageBelowForm(opy, ui, op, form_raised, filled, this_run) ==
    IF form_raised
    THEN [session |-> filled,
          run |-> [this_run EXCEPT !.outcome = "raised", !.shown = {}]]
    ELSE IF Clicked(ui, "Clear", << >>)
    THEN ClearPressed(filled, this_run)
    ELSE IF Clicked(ui, "Execute", << >>)
    THEN AfterExecute(ExecutePressed(opy, filled, op), this_run, ui)
    ELSE [session |-> filled, run |-> OutputSection(filled, this_run, ui)]

PageAfterForm(opy, session, ui, op, form) ==
    PageBelowForm(opy, ui, op, form.exc,
                  [session EXCEPT !.input_data = form.data],
                  RunRecord(ui.pressed.name, "done", {"Clear", "Execute"},
                            form.log, form.skipped, form.custom_calls,
                            << >>, << >>, << >>))

\* render_streamlit_ui(opyrator): one run of the script on the session, with
\* the user's part ui and the operation's behaviour op.
render_streamlit_ui(opy, session, ui, op) ==
    PageAfterForm(opy, session, ui, op,
                  InputUI_render_ui(opy.input_type, session.input_data, ui))

----------------------------------------------------------------------------
(* The opyrators served, the user and the operation: Spec *)

\* longest list the "Add Item" button is pressed on
MaxList == 2

T == <<"t">>
N == <<"n">>
U == <<"u">>
O == <<"o">>
P == <<"p">>
L == <<"l">>
D_ == <<"d">>
S == <<"s">>
Dotted(a, b) == a \o <<".">> \o b

NoDefinitions == [name \in {} |-> Property]

\* class FlatInput: t: str (rejected when "s2"); u: Union[...] = None; n: int = 0
FlatInput ==
    InputClass("FlatInput", FALSE,
               << Field(T, StringProperty), Field(U, UnionProperty),
                  Field(N, IntegerProperty) >>,
               {T}, NoDefinitions, {"s2"}, {T, N}, {})

\* class Inner: l: List[str]; u: Union[...]
\* class NestedInput: o: Inner = None; t: str
NestedInput ==
    InputClass("NestedInput", FALSE,
               << Field(O, RefProperty("Inner")), Field(T, StringProperty) >>,
               {T},
               [name \in {"Inner"} |->
                    ObjectDefinition(<< Field(L, ListProperty),
                                        Field(U, UnionProperty) >>)],
               {}, {T}, {Dotted(O, L)})

\* class Part: s: str; l: List[str]
\* class PartsInput: o: Part; p: Part = Field(None, title=...)
PartsInput ==
    InputClass("PartsInput", FALSE,
               << Field(O, RefProperty("Part")), Field(P, AllOfProperty("Part")) >>,
               {O},
               [name \in {"Part"} |->
                    ObjectDefinition(<< Field(S, StringProperty),
                                        Field(L, ListProperty) >>)],
               {}, {Dotted(O, S)}, {Dotted(O, L)})

\* class ListsInput: l: List[str]; d: Dict[str, str] = {}
ListsInput ==
    InputClass("ListsInput", FALSE,
               << Field(L, ListProperty), Field(D_, DictProperty) >>,
               {L}, NoDefinitions, {}, {D_}, {L, D_})

\* class CustomInput: t: str, with a render_input_ui of its own
CustomInput ==
    InputClass("CustomInput", TRUE, << Field(T, StringProperty) >>, {T},
               NoDefinitions, {"s2"}, {T}, {})

InputClasses == {FlatInput, NestedInput, PartsInput, ListsInput, CustomInput}

\* the objects a render_input_ui may return
CustomResults ==
    {Object("CustomInput", Graft(EmptyDict, << T >>, Leaf(v))) : v \in {"s1", "s2"}}

\* the values the operation may return
Results ==
    {ModelOutput("A", NoRenderer, "properties"),
     ModelOutput("B", Renderer(TRUE, {"streamlit", "input"}, TRUE, FALSE), "properties"),
     ListOutput("F", 1, NoRenderer, FALSE),
     NoOutput}

OpBehaviours ==
    {[kind |-> "return", out |-> out] : out \in Results}
        \cup {[kind |-> k, out |-> NoOutput] : k \in {"ValidationError", "Exception"}}

NoOp == [kind |-> "Exception", out |-> NoOutput]

\* what the user can have set up when a run starts with the button pressed
UIs(pressed) ==
    {[w |-> w, pressed |-> pressed, custom |-> custom] :
        w \in [opyrator.input_type.keys -> {"1", "2"}],
        custom \in IF has_input_ui_renderer(opyrator.input_type)
                   THEN {<< >>} \cup {<< object >> : object \in CustomResults}
                   ELSE {<< >>}}

CurrentSession == Session(input_data, output_data, latest_operation_input)

\* one run of the script
ScriptRun(ui, op) ==
    \E r \in {render_streamlit_ui(opyrator, CurrentSession, ui, op)} :
        /\ input_data' = r.session.input_data
        /\ output_data' = r.session.output_data
        /\ latest_operation_input' = r.session.latest_operation_input
        /\ run' = [r.run EXCEPT !.odd = ~run.odd]
        /\ UNCHANGED <<opyrator, ret>>

Init ==
    /\ opyrator \in {[input_type |-> input_class] : input_class \in InputClasses}
    /\ input_data = EmptyDict
    /\ output_data = NoOutput
    /\ latest_operation_input = NoObject
    /\ run = NoRun
    /\ ret = NoCall

\* the page is loaded, a widget is changed, or the script reruns after Clear
RunNoButton ==
    \E ui \in UIs(NoButton) : ScriptRun(ui, NoOp)

\* the length of the list an "Add Item" button of the page would extend
ListLenAt(D, key) ==
    IF split(key) \in DOMAIN D /\ LeafKind(D[split(key)]) = "list"
    THEN ListLen(D[split(key)]) ELSE 0

RunItemButton ==
    /\ "Execute" \in run.shown
    /\ \E key \in opyrator.input_type.item_keys,
          name \in {"Add Item", "Clear Items"} :
          /\ name = "Add Item" => ListLenAt(input_data, key) < MaxList
          /\ \E ui \in UIs(Button(name, key)) : ScriptRun(ui, NoOp)

RunShowJson ==
    /\ "Show JSON Output" \in run.shown
    /\ \E ui \in UIs(Button("Show JSON Output", << >>)) : ScriptRun(ui, NoOp)

RunClear ==
    /\ "Clear" \in run.shown
    /\ run.outcome # "rerun"
    /\ \E ui \in UIs(Button("Clear", << >>)) : ScriptRun(ui, NoOp)

RunExecute ==
    /\ "Execute" \in run.shown
    /\ \E ui \in UIs(Button("Execute", << >>)), op \in OpBehaviours :
          ScriptRun(ui, op)

Next == RunNoButton \/ RunItemButton \/ RunShowJson \/ RunClear \/ RunExecute

Spec == Init /\ [][Next]_vars

----------------------------------------------------------------------------
(* _store_value and _get_value as operations on a session: SpecStore *)

KeyChars == {"a", "."}

RECURSIVE KeysOfLen(_)
KeysOfLen(n) ==
    IF n = 0 THEN {<< >>}
    ELSE {Append(k, c) : k \in KeysOfLen(n - 1), c \in KeyChars}

Keys == UNION {KeysOfLen(n) : n \in 0..MaxKeyLen}

StoreValues == {Leaf("s1"), Leaf("n1"), EmptyDict}

InitStore ==
    /\ opyrator = [input_type |-> FlatInput]
    /\ input_data = EmptyDict
    /\ output_data = NoOutput
    /\ latest_operation_input = NoObject
    /\ run = NoRun
    /\ ret = NoCall

StoreValue ==
    /\ ret.n < MaxOps
    /\ \E key \in Keys, value \in StoreValues :
          LET r == _store_value(input_data, key, value)
          IN  /\ input_data' = r.data
              /\ ret' = [op |-> "store", key |-> key, value |-> value,
                         exc |-> r.exc, result |-> NoneValue, n |-> ret.n + 1]
    /\ UNCHANGED <<opyrator, output_data, latest_operation_input, run>>

GetValue ==
    /\ ret.n < MaxOps
    /\ \E key \in Keys :
          LET r == _get_value(input_data, key)
          IN  /\ input_data' = r.data
              /\ ret' = [op |-> "get", key |-> key, value |-> NoneValue,
                         exc |-> r.exc, result |-> r.val, n |-> ret.n + 1]
    /\ UNCHANGED <<opyrator, output_data, latest_operation_input, run>>

NextStore == StoreValue \/ GetValue

SpecStore == InitStore /\ [][NextStore]_vars

----------------------------------------------------------------------------
(* OutputUI on the outputs an operation can leave in the session: SpecOutput *)

ParameterLists == {{"streamlit"}, {"streamlit", "input"}, {"self", "input", "extra"}}

Renderers ==
    {NoRenderer} \cup
    {Renderer(TRUE, parameters, inspectable, raises) :
        parameters \in ParameterLists, inspectable \in BOOLEAN, raises \in BOOLEAN}

ItemRenderers ==
    {NoRenderer, Renderer(TRUE, {"streamlit"}, TRUE, FALSE),
     Renderer(TRUE, {"streamlit"}, TRUE, TRUE)}

Outputs ==
    {ModelOutput("A", renderer, auto) :
        renderer \in Renderers, auto \in {"properties", "json", "raises"}}
    \cup {ListOutput("F", len, item_renderer, item_dict_raises) :
            len \in 0..MaxList, item_renderer \in ItemRenderers,
            item_dict_raises \in BOOLEAN}
    \cup {OtherOutput("text"), NoOutput}

LatestInputs ==
    {NoObject, Object("FlatInput", Graft(EmptyDict, << T >>, Leaf("s1")))}

InitOutput ==
    /\ opyrator = [input_type |-> FlatInput]
    /\ input_data = EmptyDict
    /\ output_data \in Outputs
    /\ latest_operation_input \in LatestInputs
    /\ run = NoRun
    /\ ret = NoCall

\* OutputUI(output_data, latest_operation_input)._render_single_output(...)
RenderSingleOutput ==
    /\ ret = NoCall
    /\ output_data.kind = "model"
    /\ \E r \in {_render_single_output(output_data, latest_operation_input)} :
          ret' = [op |-> "_render_single_output", key |-> << >>,
                  value |-> NoneValue, exc |-> r.exc, result |-> r.trace, n |-> 1]
    /\ UNCHANGED <<opyrator, input_data, output_data, latest_operation_input, run>>

\* OutputUI(output_data, latest_operation_input).render_ui()
RenderOutput ==
    /\ run = NoRun
    /\ \E r \in {OutputUI_render_ui(output_data, latest_operation_input)} :
          run' = [NoRun EXCEPT
                    !.outcome = IF r.exc THEN "raised" ELSE "done",
                    !.rendered = << Rendering(output_data,
                                              latest_operation_input, r) >>]
    /\ UNCHANGED <<opyrator, input_data, output_data, latest_operation_input, ret>>

NextOutput == RenderSingleOutput \/ RenderOutput

SpecOutput == InitOutput /\ [][NextOutput]_vars

----------------------------------------------------------------------------
(* C10: _store_value / _get_value round trip *)

\* every intermediate path element of key is absent from D or holds a dict
IntermediatesAreDicts(D, key) ==
    LET path == split(key)
    IN  \A i \in 1..(Len(path) - 1) :
            LET p == SubSeq(path, 1, i)
            IN  p \in DOMAIN D => D[p] = DictLabel

\* what D holds under key: no value, or one value
StoredUnder(D, key) ==
    IF split(key) \in DOMAIN D THEN {SubTree(D, split(key))} ELSE {}

\* key2 names an element of the path that _store_value(key, _) walks
OnPathOf(key2, key) == IsPrefix(split(key2), split(key))

\* key2 names a value inside the value stored under key
BelowKey(key2, key) == IsPrefix(split(key), split(key2))

RoundTrip(D, D2, call) ==
    /\ ~call.exc
    /\ _get_value(D2, call.key) = [exc |-> FALSE, data |-> D2, val |-> call.value]

\* C10 as stated: for every dot-separated key whose intermediate path
\* elements are absent or hold dicts, _get_value(key) after
\* _store_value(key, v) returns v, and _store_value leaves the values stored
\* under all keys that are not on the path of key unchanged.
C10_AsStated ==
    [][(ret'.op = "store" /\ IntermediatesAreDicts(input_data, ret'.key)) =>
          /\ RoundTrip(input_data, input_data', ret')
          /\ \A key2 \in Keys :
                ~OnPathOf(key2, ret'.key) =>
                    StoredUnder(input_data', key2) = StoredUnder(input_data, key2)
      ]_vars

\* C10 amended: for every dot-separated key whose intermediate path elements
\* are absent or hold dicts, _get_value(key) after _store_value(key, v)
\* returns v, and _store_value leaves unchanged the values stored under all
\* keys that are neither on the path of key nor inside the value key held.
C10_StoreThenGet ==
    [][(ret'.op = "store" /\ IntermediatesAreDicts(input_data, ret'.key)) =>
          /\ RoundTrip(input_data, input_data', ret')
          /\ \A key2 \in Keys :
                (~OnPathOf(key2, ret'.key) /\ ~BelowKey(key2, ret'.key)) =>
                    StoredUnder(input_data', key2) = StoredUnder(input_data, key2)
      ]_vars

\* a dotted key has been stored and read back while another key holds a value
C10_Witness ==
    /\ ret.op = "store"
    /\ ~ret.exc
    /\ Len(split(ret.key)) >= 2
    /\ _get_value(input_data, ret.key).val = ret.value
    /\ \E key2 \in Keys :
          /\ ~OnPathOf(key2, ret.key)
          /\ ~BelowKey(key2, ret.key)
          /\ StoredUnder(input_data, key2) # {}

----------------------------------------------------------------------------
(* What a run did, read off its record *)

\* the run reached st.button("Execute") and the button returned True
ExecuteButtonPressed == run.pressed = "Execute" /\ "Execute" \in run.shown

\* the run reached st.button("Clear") and the button returned True
ClearButtonPressed == run.pressed = "Clear" /\ "Clear" \in run.shown

\* parse_obj_as on the session input_data
Parsed == parse_obj_as(opyrator.input_type, input_data)

\* the operation was called in the run and returned
ExecuteSucceeded ==
    run.op_calls # << >> /\ run.op_calls[1].result.kind = "return"

\* the operation was called in the run and raised something that is no
\* ValidationError
OperationFailed ==
    run.op_calls # << >> /\ run.op_calls[1].result.kind = "Exception"

\* the run got as far as `if session_state.output_data:`
ReachedOutputSection == "Execute" \in run.shown /\ ~OperationFailed

\* the run rendered exactly the output out with the operation input inp
RenderedOutput(out, inp) ==
    /\ Len(run.rendered) = 1
    /\ run.rendered[1].out = out
    /\ run.rendered[1].inp = inp

----------------------------------------------------------------------------
(* C1 *)

\* C1: in a run where Execute is pressed and the session input_data
\* validates against the input type, the operation is invoked exactly once
\* with the parsed input, and when it returns, session output_data is its
\* result and latest_operation_input the parsed input; in a run where Execute
\* is not pressed the operation is not invoked.
C1_ExecuteInvokesOperationOnce ==
    [][/\ (ExecuteButtonPressed' /\ Parsed' # << >>) =>
              /\ Len(run'.op_calls) = 1
              /\ run'.op_calls[1].input = Parsed'[1]
              /\ run'.op_calls[1].result.kind = "return" =>
                    /\ output_data' = run'.op_calls[1].result.out
                    /\ latest_operation_input' = Parsed'[1]
       /\ ~ExecuteButtonPressed' => run'.op_calls = << >>
      ]_vars

\* Execute was pressed on a valid input and the operation returned an output
C1_Witness ==
    /\ ExecuteButtonPressed
    /\ ExecuteSucceeded
    /\ Len(run.op_calls) = 1
    /\ OutputTruthy(output_data)
    /\ output_data = run.op_calls[1].result.out
    /\ latest_operation_input = run.op_calls[1].input
    /\ dict(latest_operation_input) # input_data

----------------------------------------------------------------------------
(* C2 *)

\* C2: when Execute is pressed and parsing the session input_data, or the
\* operation, raises a ValidationError, the error is displayed, session
\* output_data and latest_operation_input keep the values they had before the
\* run, and an output stored before is rendered in this run.
C2_ValidationErrorKeepsOutput ==
    [][(/\ ExecuteButtonPressed'
        /\ \/ Parsed' = << >>
           \/ run'.op_calls[1].result.kind = "ValidationError") =>
          /\ run'.errors = << "ValidationError" >>
          /\ output_data' = output_data
          /\ latest_operation_input' = latest_operation_input
          /\ OutputTruthy(output_data) =>
                RenderedOutput(output_data, latest_operation_input)'
      ]_vars

\* Execute was pressed on an input that does not validate while an output of
\* an earlier run is stored, and that output was rendered
C2_Witness ==
    /\ ExecuteButtonPressed
    /\ Parsed = << >>
    /\ run.op_calls = << >>
    /\ run.errors = << "ValidationError" >>
    /\ OutputTruthy(output_data)
    /\ RenderedOutput(output_data, latest_operation_input)

----------------------------------------------------------------------------
(* C3 *)

\* C3: a run in which Clear is pressed leaves the session cleared and ends in
\* a rerun, without invoking the operation or rendering an output; and from a
\* session without output, a run in which no Execute succeeds renders no
\* output and leaves the session without output (so after Clear no run
\* renders an output until an Execute succeeds).
C3_ClearEmptiesSession ==
    [][/\ ClearButtonPressed' =>
              /\ CurrentSession' = Session(EmptyDict, NoOutput, NoObject)
              /\ run'.outcome = "rerun"
              /\ run'.op_calls = << >>
              /\ run'.rendered = << >>
       /\ (~OutputTruthy(output_data) /\ ~ExecuteSucceeded') =>
              /\ run'.rendered = << >>
              /\ ~OutputTruthy(output_data')
      ]_vars

\* Clear was pressed in a run whose form had rendered widgets (and stored
\* their values); the session is empty and the run ended in a rerun
C3_Witness ==
    /\ ClearButtonPressed
    /\ run.outcome = "rerun"
    /\ run.log # << >>
    /\ run.skipped = {}
    /\ CurrentSession = Session(EmptyDict, NoOutput, NoObject)

----------------------------------------------------------------------------
(* C4 *)

\* C4 as stated: a run that reaches the output section renders the output
\* if and only if session output_data is truthy there; and while an output
\* is stored, every run in which Clear is not pressed and no Execute succeeds
\* renders that output.
C4_AsStated ==
    [][/\ ReachedOutputSection' =>
              (run'.rendered # << >> <=> OutputTruthy(output_data'))
       /\ (/\ OutputTruthy(output_data)
           /\ run'.pressed # "Clear"
           /\ ~ExecuteSucceeded') =>
              RenderedOutput(output_data, latest_operation_input)'
      ]_vars

\* C4 amended: a run that reaches the output section renders the output if
\* and only if session output_data is truthy there; and while an output is
\* stored, every run that reaches the output section and in which no Execute
\* succeeds renders that output, and every run in which Clear is not pressed
\* and no Execute succeeds keeps it stored.
C4_OutputRenderedWhileStored ==
    [][/\ ReachedOutputSection' =>
              (run'.rendered # << >> <=> OutputTruthy(output_data'))
       /\ (/\ OutputTruthy(output_data)
           /\ ReachedOutputSection'
           /\ ~ExecuteSucceeded') =>
              RenderedOutput(output_data, latest_operation_input)'
       /\ (/\ OutputTruthy(output_data)
           /\ run'.pressed # "Clear"
           /\ ~ExecuteSucceeded') =>
              /\ output_data' = output_data
              /\ latest_operation_input' = latest_operation_input
      ]_vars

\* a run without any button pressed rendered the output an earlier run stored
C4_Witness ==
    /\ run.pressed = "none"
    /\ run.op_calls = << >>
    /\ OutputTruthy(output_data)
    /\ RenderedOutput(output_data, latest_operation_input)

----------------------------------------------------------------------------
(* C5 *)

\* the names of the top-level properties of the schema
PropertyNames ==
    {opyrator.input_type.properties[i].name :
        i \in DOMAIN opyrator.input_type.properties}

\* some renderer was invoked for key in the run
RenderedFor(key) == \E i \in DOMAIN run.log : run.log[i].key = key

\* C5 as stated: in a run whose form is built by InputUI.render_ui (and that
\* Clear does not end), for every top-level property whose rendering raised
\* the exception is swallowed, the value session input_data holds for the
\* property is the one it held before the run, and every other top-level
\* property is rendered and, unless its rendering raised too, its value is
\* stored.
C5_AsStated ==
    [][\A property_key \in run'.skipped :
          run'.outcome # "rerun" =>
              /\ "Execute" \in run'.shown
              /\ StoredUnder(input_data', property_key)
                    = StoredUnder(input_data, property_key)
              /\ \A other \in PropertyNames \ {property_key} :
                    /\ RenderedFor(other)'
                    /\ other \notin run'.skipped =>
                          StoredUnder(input_data', other) # {}
      ]_vars

----------------------------------------------------------------------------
(* C6 *)

\* the container render_ui picks for a top-level property
ContainerOf(property_key) ==
    IF property_key \in opyrator.input_type.required THEN "main" ELSE "sidebar"

\* C6: every renderer invoked in a run, for a top-level property or for a
\* property nested in an object, is handed the main page when the top-level
\* property it belongs to is in the schema's required list, and the sidebar
\* otherwise.
C6_ContainersFollowRequired ==
    \A i \in DOMAIN run.log :
        run.log[i].container = ContainerOf(Head(split(run.log[i].key)))

\* a run rendered a property nested in a required object on the main page and
\* a property nested in an optional object in the sidebar
C6_Witness ==
    \E i, j \in DOMAIN run.log :
        /\ Len(split(run.log[i].key)) = 2
        /\ run.log[i].container = "main"
        /\ Len(split(run.log[j].key)) = 2
        /\ run.log[j].container = "sidebar"

----------------------------------------------------------------------------
(* C7 *)

\* C7: when the input class defines render_input_ui, a run calls it once,
\* with the session input_data of the start of the run, invokes no
\* auto-generated renderer, and, when the call returns (and Clear does not
\* end the run), leaves as session input_data the dict of what it returned.
C7_CustomInputRenderer ==
    [][has_input_ui_renderer(opyrator.input_type) =>
          /\ Len(run'.custom_calls) = 1
          /\ run'.custom_calls[1].input_data = input_data
          /\ run'.log = << >>
          /\ (run'.custom_calls[1].result # << >> /\ run'.outcome # "rerun") =>
                input_data' = dict(run'.custom_calls[1].result[1])
      ]_vars

\* render_input_ui was called with a session input_data that held values and
\* returned an object with other values, which the session now holds
C7_Witness ==
    /\ Len(run.custom_calls) = 1
    /\ run.custom_calls[1].input_data # EmptyDict
    /\ run.custom_calls[1].result # << >>
    /\ input_data = dict(run.custom_calls[1].result[1])
    /\ input_data # run.custom_calls[1].input_data
    /\ run.log = << >>

----------------------------------------------------------------------------
(* C8 *)

\* the signature of the renderer can be read and has a parameter named input
HasInputParameter(renderer) ==
    renderer.inspectable /\ "input" \in renderer.parameters

\* the call of render_output_ui for a renderer and the latest operation input
ExpectedCall(renderer, inp) ==
    Step("render_output_ui", IF HasInputParameter(renderer) THEN << inp >> ELSE << >>)

\* C8: when the output model defines render_output_ui, _render_single_output
\* calls it, with the latest operation input exactly when its signature has a
\* parameter named input; when the call returns nothing else is rendered,
\* and when it raises the auto-generated rendering follows and only an
\* exception of that rendering leaves _render_single_output.
C8_CustomOutputRenderer ==
    (ret.op = "_render_single_output" /\ has_output_ui_renderer(output_data)) =>
        IF output_data.render_output_ui.raises
        THEN /\ ret.result =
                    << ExpectedCall(output_data.render_output_ui,
                                    latest_operation_input) >>
                    \o AutoRendering(output_data).trace
             /\ ret.exc = (output_data.auto = "raises")
        ELSE /\ ret.result =
                    << ExpectedCall(output_data.render_output_ui,
                                    latest_operation_input) >>
             /\ ~ret.exc

\* a custom renderer that takes the input was called with it and raised; the
\* properties of the output were then rendered and no exception left
C8_Witness ==
    /\ ret.op = "_render_single_output"
    /\ has_output_ui_renderer(output_data)
    /\ output_data.render_output_ui.raises
    /\ latest_operation_input # NoObject
    /\ ret.result = << Step("render_output_ui", << latest_operation_input >>),
                       Step("properties", << >>) >>
    /\ ~ret.exc

----------------------------------------------------------------------------
(* C9 *)

\* the steps of the renderer of the output's type, and whether it raised
TypedRendering ==
    IF output_data.kind = "model"
    THEN _render_single_output(output_data, latest_operation_input)
    ELSE IF output_data.kind = "list" THEN _render_list_output(output_data)
    ELSE [exc |-> FALSE, trace |-> << >>]

----------------------------------------------------------------------------
(* _render_property on the properties a schema can hold: SpecProperty *)

\* the definitions the properties refer to: an enum, an object and a string
PropertyDefinitions ==
    [name \in {"Enum", "Obj", "Str"} |->
        CASE name = "Enum" -> EnumDefinition
          [] name = "Obj"  -> ObjectDefinition(<< Field(S, StringProperty) >>)
          [] OTHER         -> StringProperty]

\* the "items" entries of a property: none, strings, files, objects, enums
ItemsEntries ==
    {[has_items |-> FALSE, items_type |-> "none", items_format |-> "none",
      items_ref |-> "none", unique_items |-> FALSE],
     [has_items |-> TRUE, items_type |-> "string", items_format |-> "none",
      items_ref |-> "none", unique_items |-> FALSE],
     [has_items |-> TRUE, items_type |-> "string", items_format |-> "byte",
      items_ref |-> "none", unique_items |-> FALSE],
     [has_items |-> TRUE, items_type |-> "none", items_format |-> "none",
      items_ref |-> "Obj", unique_items |-> FALSE],
     [has_items |-> TRUE, items_type |-> "none", items_format |-> "none",
      items_ref |-> "Enum", unique_items |-> TRUE]}

Properties ==
    {[Property EXCEPT !.type = type, !.format = format, !.ref = ref,
                      !.additional_properties = additional_properties,
                      !.has_items = items.has_items,
                      !.items_type = items.items_type,
                      !.items_format = items.items_format,
                      !.items_ref = items.items_ref,
                      !.unique_items = items.unique_items] :
        type \in {"none", "string", "integer", "boolean", "object", "array"},
        format \in {"none", "byte", "date"},
        ref \in {"none", "Enum", "Obj", "Str", "Missing"},
        additional_properties \in BOOLEAN,
        items \in ItemsEntries}

\* class PropertyInput: o: <one of Properties>
PropertyInput ==
    InputClass("PropertyInput", FALSE, << >>, {}, PropertyDefinitions, {}, {O}, {O})

\* the sessions _render_property is called on: empty, a list or a string
\* under the key
PropertySessions ==
    {EmptyDict, Graft(EmptyDict, << O >>, Leaf("[x]")),
     Graft(EmptyDict, << O >>, Leaf("s1"))}

PropertyUIs ==
    {[w |-> w, pressed |-> pressed, custom |-> << >>] :
        w \in [{O} -> {"1", "2"}],
        pressed \in {NoButton, Button("Add Item", O)}}

InitProperty ==
    /\ opyrator = [input_type |-> PropertyInput]
    /\ input_data \in PropertySessions
    /\ output_data = NoOutput
    /\ latest_operation_input = NoObject
    /\ run = NoRun
    /\ ret = NoCall

\* self._render_property(streamlit_app, "o", property)
RenderProperty ==
    /\ ret = NoCall
    /\ \E streamlit_app \in {"main", "sidebar"}, property \in Properties,
          ui \in PropertyUIs :
          \E r \in {_render_property(streamlit_app, O, property, input_data, ui,
                                     opyrator.input_type.definitions,
                                     RecursionLimit)} :
              /\ input_data' = r.data
              /\ ret' = [op |-> "_render_property", key |-> O,
                         value |-> [streamlit_app |-> streamlit_app,
                                    property |-> property,
                                    input_data |-> input_data, ui |-> ui],
                         exc |-> r.exc, result |-> r, n |-> 1]
    /\ UNCHANGED <<opyrator, output_data, latest_operation_input, run>>

NextProperty == RenderProperty

SpecProperty == InitProperty /\ [][NextProperty]_vars

----------------------------------------------------------------------------
(* C11 *)

\* the predicates of schema_utils in the order of the claim
PredicatesInOrder(property, references) ==
    << is_single_enum_property(property, references),
       is_multi_enum_property(property, references),
       is_single_file_property(property),
       is_multi_file_property(property),
       is_single_datetime_property(property),
       is_single_boolean_property(property),
       is_single_dict_property(property),
       is_single_number_property(property),
       is_single_string_property(property),
       is_single_object(property, references),
       is_object_list_property(property, references),
       is_property_list(property),
       is_single_reference(property) >>

\* the position of the first predicate that holds, 0 when none holds
FirstHolding(holds) ==
    IF \A k \in DOMAIN holds : ~holds[k] THEN 0
    ELSE CHOOSE k \in DOMAIN holds :
            holds[k] /\ \A j \in 1..(k - 1) : ~holds[j]

\* what the k-th renderer of the order does when called with the arguments
\* of the _render_property call
RendererInOrder(k, a, key, references, fuel) ==
    CASE k = 1  -> _render_single_enum_input(a.streamlit_app, key, a.property, a.input_data, a.ui)
      [] k = 2  -> _render_multi_enum_input(a.streamlit_app, key, a.property, a.input_data, a.ui)
      [] k = 3  -> _render_single_file_input(a.streamlit_app, key, a.property, a.input_data, a.ui)
      [] k = 4  -> _render_multi_file_input(a.streamlit_app, key, a.property, a.input_data, a.ui)
      [] k = 5  -> _render_single_datetime_input(a.streamlit_app, key, a.property, a.input_data, a.ui)
      [] k = 6  -> _render_single_boolean_input(a.streamlit_app, key, a.property, a.input_data, a.ui)
      [] k = 7  -> _render_single_dict_input(a.streamlit_app, key, a.property, a.input_data, a.ui)
      [] k = 8  -> _render_single_number_input(a.streamlit_app, key, a.property, a.input_data, a.ui)
      [] k = 9  -> _render_single_string_input(a.streamlit_app, key, a.property, a.input_data, a.ui)
      [] k = 10 -> _render_single_object_input(a.streamlit_app, key, a.property, a.input_data, a.ui, references, fuel)
      [] k = 11 -> _render_object_list_input(a.streamlit_app, key, a.property, a.input_data, a.ui, references, fuel)
      [] k = 12 -> _render_property_list_input(a.streamlit_app, key, a.property, a.input_data, a.ui)
      [] k = 13 -> _render_single_reference(a.streamlit_app, key, a.property, a.input_data, a.ui, references, fuel)

RendererNames ==
    << "_render_single_enum_input", "_render_multi_enum_input",
       "_render_single_file_input", "_render_multi_file_input",
       "_render_single_datetime_input", "_render_single_boolean_input",
       "_render_single_dict_input", "_render_single_number_input",
       "_render_single_string_input", "_render_single_object_input",
       "_render_object_list_input", "_render_property_list_input",
       "_render_single_reference" >>

\* the position of the first predicate that holds for the property of the
\* latest _render_property call
FirstOfCall ==
    FirstHolding(PredicatesInOrder(ret.value.property,
                                   opyrator.input_type.definitions))

\* C11: a call of _render_property does what the renderer of the first
\* predicate that holds does, in the order single enum, multi enum, single
\* file, multi file, datetime, boolean, dict, number, string, single object,
\* object list, property list, single reference, and that renderer is the
\* first one invoked; when no predicate holds the call shows a warning and
\* raises without invoking a renderer or changing the session.
C11_FirstPredicateDecides ==
    ret.op = "_render_property" =>
        IF FirstOfCall = 0
        THEN ret.result = Raised(ret.value.input_data,
                                 << Invocation(ret.value.streamlit_app, ret.key,
                                               "warning") >>)
        ELSE /\ ret.result =
                    RendererInOrder(FirstOfCall, ret.value, ret.key,
                                    opyrator.input_type.definitions,
                                    RecursionLimit - 1)
             /\ ret.result.log[1] =
                    Invocation(ret.value.streamlit_app, ret.key,
                               RendererNames[FirstOfCall])

\* a property for which the file, the datetime and the string predicate hold
\* was rendered by the file renderer alone
C11_Witness ==
    /\ ret.op = "_render_property"
    /\ is_single_file_property(ret.value.property)
    /\ is_single_string_property(ret.value.property)
    /\ FirstOfCall = 3
    /\ ~ret.exc
    /\ ret.result.log =
          << Invocation(ret.value.streamlit_app, ret.key,
                        "_render_single_file_input") >>

----------------------------------------------------------------------------
(* The recursion of the property renderers, call by call: SpecRecursion *)

\* number of _render_property calls of one run that are followed
MaxCalls == 12

\* A call in progress: the function, its key and property, and for
\* _render_object_input the position i of its loop.  A call whose result the
\* caller returns unchanged takes the caller's place.
Frame(fn, key, property, i) == [fn |-> fn, key |-> key, property |-> property, i |-> i]

\* what a run in progress has done: the calls in progress (innermost first),
\* the (key, property) pairs handed to _render_property so far, the position
\* i of render_ui's loop, and whether render_ui has returned
RecursionRecord(stack, handed, i, outcome) ==
    [stack |-> stack, handed |-> handed, i |-> i, outcome |-> outcome]

Handing(key, property) == [key |-> key, property |-> property]

\* lines 584-628: the renderer _render_property picks for a property, the
\* warning when no predicate holds
RendererOf(key, property, references) ==
    IF is_single_enum_property(property, references) THEN "_render_single_enum_input"
    ELSE IF is_multi_enum_property(property, references) THEN "_render_multi_enum_input"
    ELSE IF is_single_file_property(property) THEN "_render_single_file_input"
    ELSE IF is_multi_file_property(property) THEN "_render_multi_file_input"
    ELSE IF is_single_datetime_property(property) THEN "_render_single_datetime_input"
    ELSE IF is_single_boolean_property(property) THEN "_render_single_boolean_input"
    ELSE IF is_single_dict_property(property) THEN "_render_single_dict_input"
    ELSE IF is_single_number_property(property) THEN "_render_single_number_input"
    ELSE IF is_single_string_property(property) THEN "_render_single_string_input"
    ELSE IF is_single_object(property, references) THEN "_render_single_object_input"
    ELSE IF is_object_list_property(property, references) THEN "_render_object_list_input"
    ELSE IF is_property_list(property) THEN "_render_property_list_input"
    ELSE IF is_single_reference(property) THEN "_render_single_reference"
    ELSE "warning"

RecursiveRenderers ==
    {"_render_single_object_input", "_render_object_list_input",
     "_render_single_reference", "warning"}

\* _render_single_reference with the property in place of the reference item
ReferenceFrameOfProperty(frame, references) ==
    Frame("_render_property", frame.key, frame.property, 0)

\* lines 380-386: the _render_property call of _render_single_reference
ReferenceFrame(frame, references) ==
    Frame("_render_property", frame.key,
          get_single_reference_item(frame.property, references)[1], 0)

\* lines 482-494 and 543-582: the _render_object_input call of
\* _render_single_object_input and of _render_object_list_input
ObjectFrame(frame, renderer, references) ==
    Frame("_render_object_input", frame.key,
          IF renderer = "_render_single_object_input"
          THEN get_single_reference_item(frame.property, references)[1]
          ELSE resolve_reference(frame.property.items_ref, references)[1],
          1)

\* lines 467-480: the _render_property call of the i-th round of the loop
NestedFrame(frame) ==
    Frame("_render_property",
          frame.key \o <<".">> \o frame.property.properties[frame.i].name,
          frame.property.properties[frame.i].property, 0)

\* the schemas: definitions A and B, each a string, an enum, an object, a
\* reference, or an object with a reference, a list of objects or an
\* unsupported property
DefinitionNames == {"A", "B"}

DefinitionChoices ==
    {StringProperty, EnumDefinition,
     ObjectDefinition(<< Field(S, StringProperty) >>)}
    \cup {RefProperty(name) : name \in DefinitionNames}
    \cup {ObjectDefinition(<< Field(S, RefProperty(name)), Field(N, IntegerProperty) >>) :
            name \in DefinitionNames}
    \cup {ObjectDefinition(<< Field(L, ObjectListProperty(name)) >>) :
            name \in DefinitionNames}
    \cup {ObjectDefinition(<< Field(U, UnionProperty), Field(S, AllOfProperty(name)) >>) :
            name \in DefinitionNames}

\* class RecursionInput: o: A; p: List[B]; t: str
RecursionInputs ==
    {InputClass("RecursionInput", FALSE,
                << Field(O, RefProperty("A")), Field(P, ObjectListProperty("B")),
                   Field(T, StringProperty) >>,
                {O, T}, definitions, {}, {}, {}) :
        definitions \in [DefinitionNames -> DefinitionChoices]}

InitRecursion ==
    /\ opyrator \in {[input_type |-> input_class] : input_class \in RecursionInputs}
    /\ input_data = EmptyDict
    /\ output_data = NoOutput
    /\ latest_operation_input = NoObject
    /\ run = RecursionRecord(<< >>, << >>, 1, "running")
    /\ ret = NoCall

\* the call frame is made and the pair is handed to _render_property
Call(frame, rest, i) ==
    /\ Len(run.handed) < MaxCalls
    /\ run' = RecursionRecord(<< frame >> \o rest,
                              Append(run.handed, Handing(frame.key, frame.property)),
                              i, "running")
    /\ UNCHANGED <<opyrator, input_data, output_data, latest_operation_input, ret>>

Continue(stack) ==
    /\ run' = [run EXCEPT !.stack = stack]
    /\ UNCHANGED <<opyrator, input_data, output_data, latest_operation_input, ret>>

\* lines 110-127: a round of render_ui's loop calls _render_property
StartProperty ==
    /\ run.outcome = "running"
    /\ run.stack = << >>
    /\ run.i <= Len(opyrator.input_type.properties)
    /\ Call(Frame("_render_property",
                  opyrator.input_type.properties[run.i].name,
                  opyrator.input_type.properties[run.i].property, 0),
            << >>, run.i + 1)

\* lines 584-628: _render_property picks a renderer that calls no other
\* (the call returns), or shows the warning and raises
CallLeafRenderer ==
    /\ run.stack # << >>
    /\ Head(run.stack).fn = "_render_property"
    /\ \E renderer \in {RendererOf(Head(run.stack).key, Head(run.stack).property,
                                  opyrator.input_type.definitions)} :
          /\ renderer \notin RecursiveRenderers \ {"warning"}
          /\ Continue(IF renderer = "warning" THEN << >> ELSE Tail(run.stack))

\* lines 584-628: _render_property picks the object or the object list
\* renderer, which calls _render_object_input
CallObjectRenderer ==
    /\ run.stack # << >>
    /\ Head(run.stack).fn = "_render_property"
    /\ \E renderer \in {RendererOf(Head(run.stack).key, Head(run.stack).property,
                                  opyrator.input_type.definitions)} :
          /\ renderer \in {"_render_single_object_input", "_render_object_list_input"}
          /\ Continue(<< ObjectFrame(Head(run.stack), renderer,
                                     opyrator.input_type.definitions) >>
                      \o Tail(run.stack))

\* lines 584-628 and 380-386: _render_property picks _render_single_reference,
\* which calls _render_property
CallSingleReference ==
    /\ run.stack # << >>
    /\ Head(run.stack).fn = "_render_property"
    /\ RendererOf(Head(run.stack).key, Head(run.stack).property,
                  opyrator.input_type.definitions) = "_render_single_reference"
    /\ Call(ReferenceFrame(Head(run.stack), opyrator.input_type.definitions),
            Tail(run.stack), run.i)

\* lines 467-480: a round of the loop of _render_object_input
ObjectLoop ==
    /\ run.stack # << >>
    /\ Head(run.stack).fn = "_render_object_input"
    /\ Head(run.stack).i <= Len(Head(run.stack).property.properties)
    /\ Call(NestedFrame(Head(run.stack)),
            << [Head(run.stack) EXCEPT !.i = @ + 1] >> \o Tail(run.stack), run.i)

\* lines 467-480: the loop of _render_object_input is over
ObjectReturn ==
    /\ run.stack # << >>
    /\ Head(run.stack).fn = "_render_object_input"
    /\ Head(run.stack).i > Len(Head(run.stack).property.properties)
    /\ Continue(Tail(run.stack))

\* a call in progress raises (a widget, _get_value): the exception reaches
\* the except clause of render_ui
RaiseException ==
    /\ run.stack # << >>
    /\ Continue(<< >>)

\* render_ui's loop is over
FinishRun ==
    /\ run.outcome = "running"
    /\ run.stack = << >>
    /\ run.i > Len(opyrator.input_type.properties)
    /\ run' = [run EXCEPT !.outcome = "done"]
    /\ UNCHANGED <<opyrator, input_data, output_data, latest_operation_input, ret>>

NextRecursion ==
    \/ StartProperty
    \/ CallLeafRenderer
    \/ CallObjectRenderer
    \/ CallSingleReference
    \/ ObjectLoop
    \/ ObjectReturn
    \/ RaiseException
    \/ FinishRun

\* the interpreter goes on while a step is left
SpecRecursion == InitRecursion /\ [][NextRecursion]_vars /\ WF_vars(NextRecursion)

----------------------------------------------------------------------------
(* C12 *)

\* the definitions a property names: "$ref", allOf[0]["$ref"], items["$ref"]
DirectReferences(property) ==
    {property.ref, property.all_of_ref, property.items_ref} \ {"none"}

\* the definitions a definition refers to, itself or in its properties
ReferencesOf(definition) ==
    DirectReferences(definition)
        \cup UNION {DirectReferences(definition.properties[i].property) :
                        i \in DOMAIN definition.properties}

\* the definitions reached from the set names in one or more references
RECURSIVE ReachedFrom(_, _)
ReachedFrom(names, definitions) ==
    IF UNION {ReferencesOf(definitions[name]) : name \in names} \subseteq names
    THEN names
    ELSE ReachedFrom(names \cup UNION {ReferencesOf(definitions[name]) : name \in names},
                     definitions)

\* the references between the definitions of the schema form no cycle
AcyclicSchema ==
    \A name \in DOMAIN opyrator.input_type.definitions :
        name \notin ReachedFrom(ReferencesOf(opyrator.input_type.definitions[name]),
                                opyrator.input_type.definitions)

\* render_ui has returned and no call is in progress
RunDone == run.outcome = "done" /\ run.stack = << >>

\* no (key, property) pair was handed to _render_property twice, and the run
\* has not used up the calls that are followed
HandedOnce ==
    /\ Len(run.handed) < MaxCalls
    /\ \A i, j \in DOMAIN run.handed : run.handed[i] = run.handed[j] => i = j

\* C12: for every schema whose references between definitions form no cycle,
\* the run of render_ui with the recursion of _render_property,
\* _render_single_reference, _render_single_object_input,
\* _render_object_list_input and _render_object_input ends, and every
\* property is handed to _render_property at most once per key.
C12_RecursionTerminates ==
    /\ AcyclicSchema ~> RunDone
    /\ [](AcyclicSchema => HandedOnce)

\* a run on an acyclic schema ended after _render_property was called for a
\* property nested in an object and twice for one key (a reference to a
\* definition that is a reference)
C12_Witness ==
    /\ AcyclicSchema
    /\ RunDone
    /\ \E i \in DOMAIN run.handed : Len(split(run.handed[i].key)) >= 2
    /\ \E i, j \in DOMAIN run.handed :
          i < j /\ run.handed[i].key = run.handed[j].key

====
